---- MODULE Spec2Model ----
(***************************************************************************)
(* A model of adventure.py: the map loader and validator, the game state,  *)
(* and the command interpreter with its per-verb handlers.                 *)
(*                                                                         *)
(* Python strings are modelled as sequences of one-character strings so    *)
(* that strip, lower, split, slicing and membership tests are computed     *)
(* the way the interpreter computes them.  A dict is a sequence of         *)
(* key/value entries in insertion order; the set of keys a JSON object     *)
(* carries is kept in its "keys" field.                                    *)
(***************************************************************************)
EXTENDS Integers, Sequences, FiniteSets, Bags, TLC

VARIABLES game_map, pc, current_room, inventory, room_items,
          command, output, console, prev

vars == <<game_map, pc, current_room, inventory, room_items,
          command, output, console, prev>>

----------------------------------------------------------------------------
(* str methods used by process_command and the handlers                    *)

UpperChars == <<"A", "B", "C", "D", "E", "F", "G", "H", "I", "J", "K", "L", "M",
                "N", "O", "P", "Q", "R", "S", "T", "U", "V", "W", "X", "Y", "Z">>

LowerChars == <<"a", "b", "c", "d", "e", "f", "g", "h", "i", "j", "k", "l", "m",
                "n", "o", "p", "q", "r", "s", "t", "u", "v", "w", "x", "y", "z">>

\* the lower-case letter of every upper-case letter
LowerOf ==
    [c \in {UpperChars[i] : i \in DOMAIN UpperChars} |->
        LowerChars[CHOOSE i \in DOMAIN UpperChars : UpperChars[i] = c]]

lowerChar(c) == IF c \in DOMAIN LowerOf THEN LowerOf[c] ELSE c

\* str.lower()
lower(s) == IF s = <<>> THEN <<>> ELSE [i \in 1..Len(s) |-> lowerChar(s[i])]

IsSpace(c) == c \in {" ", "\t", "\n"}

RECURSIVE lstrip(_)
lstrip(s) ==
    IF s = <<>> THEN <<>>
    ELSE IF IsSpace(Head(s)) THEN lstrip(Tail(s)) ELSE s

RECURSIVE rstrip(_)
rstrip(s) ==
    IF s = <<>> THEN <<>>
    ELSE IF IsSpace(s[Len(s)]) THEN rstrip(SubSeq(s, 1, Len(s) - 1)) ELSE s

\* str.strip()
strip(s) == rstrip(lstrip(s))

\* length of the leading run of non-blank characters of s
RECURSIVE WordLen(_)
WordLen(s) ==
    IF s = <<>> \/ IsSpace(Head(s)) THEN 0 ELSE 1 + WordLen(Tail(s))

\* str.split(): the whitespace-delimited words of s
RECURSIVE split(_)
split(s) ==
    LET t == lstrip(s) IN
    IF t = <<>> THEN <<>>
    ELSE LET n == WordLen(t) IN
         <<SubSeq(t, 1, n)>> \o split(SubSeq(t, n + 1, Len(t)))

\* s[n:]
SliceFrom(s, n) == SubSeq(s, n + 1, Len(s))

\* sep.join(xs)
RECURSIVE join(_, _)
join(sep, xs) ==
    IF xs = <<>> THEN <<>>
    ELSE IF Len(xs) = 1 THEN xs[1]
    ELSE xs[1] \o sep \o join(sep, Tail(xs))

\* x in xs, for a list xs
InList(x, xs) == \E i \in DOMAIN xs : xs[i] = x

\* list.remove(x): xs without the first occurrence of x
ListRemove(xs, x) ==
    LET k == CHOOSE i \in DOMAIN xs :
                 xs[i] = x /\ \A j \in 1..(i - 1) : xs[j] # x
    IN SubSeq(xs, 1, k - 1) \o SubSeq(xs, k + 1, Len(xs))

----------------------------------------------------------------------------
(* Words of the game                                                       *)

NL == <<"\n">>
SP == <<" ">>

s_go == <<"g", "o">>
s_east == <<"e", "a", "s", "t">>
s_west == <<"w", "e", "s", "t">>
s_south == <<"s", "o", "u", "t", "h">>
s_north == <<"n", "o", "r", "t", "h">>
s_southeast == <<"s", "o", "u", "t", "h", "e", "a", "s", "t">>
s_southwest == <<"s", "o", "u", "t", "h", "w", "e", "s", "t">>
s_northeast == <<"n", "o", "r", "t", "h", "e", "a", "s", "t">>
s_northwest == <<"n", "o", "r", "t", "h", "w", "e", "s", "t">>
s_look == <<"l", "o", "o", "k">>
s_get == <<"g", "e", "t">>
s_drop == <<"d", "r", "o", "p">>
s_inventory == <<"i", "n", "v", "e", "n", "t", "o", "r", "y">>
s_help == <<"h", "e", "l", "p">>
s_quit == <<"q", "u", "i", "t">>

\* function_dict with the entry for "drop" left out
function_dict_short ==
    <<s_go, s_east, s_west, s_south, s_north, s_southeast, s_southwest,
      s_northeast, s_northwest, s_look, s_get, s_inventory, s_help, s_quit>>

\* the keys of function_dict, in insertion order
function_dict ==
    <<s_go, s_east, s_west, s_south, s_north, s_southeast, s_southwest,
      s_northeast, s_northwest, s_look, s_get, s_drop, s_inventory, s_help,
      s_quit>>

\* the words dispatched to handle_direction
DirectionWords ==
    {s_east, s_west, s_south, s_north, s_southeast, s_southwest, s_northeast,
     s_northwest}

----------------------------------------------------------------------------
(* Maps: the decoded JSON documents handed to validate_map                 *)

Exit(d, t) == [dir |-> d, to |-> t]

\* a room record that carries an "items" list
Room(n, d, ex, its) ==
    [keys |-> {"name", "desc", "exits", "items"}, typed |-> TRUE,
     name |-> n, desc |-> d, exits |-> ex, items |-> its]

\* a room record defined without an "items" key
RoomNoItems(n, d, ex) ==
    [keys |-> {"name", "desc", "exits"}, typed |-> TRUE,
     name |-> n, desc |-> d, exits |-> ex, items |-> <<>>]

GameMap(s, rs) == [keys |-> {"start", "rooms"}, start |-> s, rooms |-> rs]

A == <<"A">>
B == <<"B">>
C == <<"C">>
D == <<"D">>
s_North == <<"N", "o", "r", "t", "h">>
key == <<"k", "e", "y">>
bandana == <<"b", "a", "n", "d", "a", "n", "a">>
deck_of_cards == <<"d", "e", "c", "k", " ", "o", "f", " ", "c", "a", "r", "d", "s">>

\* A(start, exits {north: B}), B(exits {south: A}, items ["key"])
MapScenario ==
    GameMap(A, <<RoomNoItems(A, <<"h", "a", "l", "l">>, <<Exit(s_north, B)>>),
                 Room(B, <<"d", "e", "n">>, <<Exit(s_south, A)>>, <<key>>)>>)

\* three rooms in the shape of the sample map of main()
MapHouse ==
    GameMap(A, <<Room(A, <<"w", "h", "i", "t", "e">>,
                      <<Exit(s_north, B), Exit(s_northwest, C)>>, <<>>),
                 RoomNoItems(B, <<"b", "l", "u", "e">>,
                      <<Exit(s_west, C), Exit(s_south, A)>>),
                 Room(C, <<"g", "r", "e", "e", "n">>,
                      <<Exit(s_east, B), Exit(s_southeast, A)>>,
                      <<deck_of_cards, bandana, key>>)>>)

\* an exit key written with a capital letter, and two items of one name
MapCaps ==
    GameMap(A, <<Room(A, <<"y", "a", "r", "d">>, <<Exit(s_North, B)>>, <<key, key>>),
                 Room(B, <<"s", "h", "e", "d">>, <<Exit(s_south, A)>>, <<>>)>>)

\* the start field names no room
MapBadStart == GameMap(C, <<Room(A, <<"c", "e", "l", "l">>, <<>>, <<key>>)>>)

\* an exit names no room
MapBadExit ==
    GameMap(A, <<Room(A, <<"h", "a", "l", "l">>, <<Exit(s_north, C)>>, <<>>),
                 Room(B, <<"d", "e", "n">>, <<Exit(s_south, A)>>, <<>>)>>)

\* two rooms of one name
MapDuplicate ==
    GameMap(A, <<Room(A, <<"h", "a", "l", "l">>, <<>>, <<>>), Room(A, <<"d", "e", "n">>, <<>>, <<>>)>>)

\* a room without "desc", a room of the wrong types, a map without "start"
MapMissingField ==
    GameMap(A, <<[Room(A, <<"h", "a", "l", "l">>, <<>>, <<>>) EXCEPT !.keys = {"name", "exits"}]>>)

MapWrongType ==
    GameMap(A, <<[Room(A, <<"h", "a", "l", "l">>, <<>>, <<>>) EXCEPT !.typed = FALSE]>>)

MapNoStart ==
    [GameMap(A, <<Room(A, <<"h", "a", "l", "l">>, <<>>, <<>>)>>) EXCEPT !.keys = {"rooms"}]

\* a room, an exit and an item that are all named "quit"
MapQuit ==
    GameMap(s_quit, <<Room(s_quit, s_quit, <<Exit(s_quit, s_quit)>>, <<s_quit>>)>>)

Maps ==
    {MapScenario, MapHouse, MapCaps, MapBadStart, MapBadExit, MapDuplicate,
     MapMissingField, MapWrongType, MapNoStart, MapQuit}

\* Generated maps: up to MaxRooms rooms named A, B or C, each with no exit
\* or one exit "north" to A, B or D (D is never a room).
MaxRooms == 2

GenRooms ==
    {RoomNoItems(n, <<"x">>, ex) :
        n \in {A, B, C},
        ex \in {<<>>} \cup {<<Exit(s_north, t)>> : t \in {A, B, D}}}

GenMaps ==
    {GameMap(s, rs) :
        s \in {A, D},
        rs \in UNION {[1..n -> GenRooms] : n \in 0..MaxRooms}}

----------------------------------------------------------------------------
(* load_map and validate_map                                               *)

\* scan_rooms with "return False" where the source has "continue": an exit
\* to a room not yet seen fails the map
RECURSIVE scan_rooms_eager(_, _, _)
scan_rooms_eager(rooms, i, room_names) ==
    IF i > Len(rooms) THEN [ok |-> TRUE, room_names |-> room_names]
    ELSE LET room == rooms[i] IN
         IF ~({"name", "desc", "exits"} \subseteq room.keys)
         THEN [ok |-> FALSE, room_names |-> room_names]
         ELSE IF ~room.typed
         THEN [ok |-> FALSE, room_names |-> room_names]
         ELSE IF room.name \in room_names
         THEN [ok |-> FALSE, room_names |-> room_names]
         ELSE IF \E j \in DOMAIN room.exits :
                    room.exits[j].to \notin room_names \cup {room.name}
         THEN [ok |-> FALSE, room_names |-> room_names]
         ELSE scan_rooms_eager(rooms, i + 1, room_names \cup {room.name})

\* validate_map, first loop: the per-room checks.  The inner loop over the
\* exits only skips names not yet seen, so it changes nothing.
RECURSIVE scan_rooms(_, _, _)
scan_rooms(rooms, i, room_names) ==
    IF i > Len(rooms) THEN [ok |-> TRUE, room_names |-> room_names]
    ELSE LET room == rooms[i] IN
         IF ~({"name", "desc", "exits"} \subseteq room.keys)
         THEN [ok |-> FALSE, room_names |-> room_names]
         ELSE IF ~room.typed
         THEN [ok |-> FALSE, room_names |-> room_names]
         ELSE IF room.name \in room_names
         THEN [ok |-> FALSE, room_names |-> room_names]
         ELSE scan_rooms(rooms, i + 1, room_names \cup {room.name})

\* validate_map, second loop: every exit target is in the complete name set
exits_resolve(rooms, room_names) ==
    \A i \in DOMAIN rooms : \A j \in DOMAIN rooms[i].exits :
        rooms[i].exits[j].to \in room_names

validate_map(m) ==
    IF "start" \notin m.keys \/ "rooms" \notin m.keys THEN FALSE
    ELSE LET s == scan_rooms(m.rooms, 1, {}) IN
         IF ~s.ok THEN FALSE ELSE exits_resolve(m.rooms, s.room_names)

\* load_map, given the decoded document: the map, or sys.exit(1)
load_map(m) == IF validate_map(m) THEN "loaded" ELSE "exit"

----------------------------------------------------------------------------
(* GameState and the handlers.  A handler is an operator from its argument *)
(* and the game state to the string it returns, the text it prints itself, *)
(* the game state it leaves, and whether it raised an exception.           *)

State ==
    [current_room |-> current_room, inventory |-> inventory,
     room_items |-> room_items]

Result(out, printed, st) ==
    [output |-> out, printed |-> printed, state |-> st, raised |-> FALSE]

Raise(printed, st) ==
    [output |-> <<>>, printed |-> printed, state |-> st, raised |-> TRUE]

\* GameState.__init__
GameState(m) ==
    [current_room |-> m.start, inventory |-> <<>>,
     room_items |-> [i \in DOMAIN m.rooms |-> m.rooms[i].items]]

\* GameState.get_current_room: the position in game_map["rooms"] of the
\* first room named current_room; 0 stands for None
get_current_room(st) ==
    LET idx == {i \in DOMAIN game_map.rooms :
                    game_map.rooms[i].name = st.current_room}
    IN IF idx = {} THEN 0 ELSE CHOOSE i \in idx : \A j \in idx : i <= j

\* direction in room["exits"], room["exits"][direction], room["exits"].keys()
has_exit(room, d) == \E j \in DOMAIN room.exits : room.exits[j].dir = d

\* exit_target returning the direction word instead of the room it leads to
exit_target_direction(room, d) == d

exit_target(room, d) ==
    room.exits[CHOOSE j \in DOMAIN room.exits : room.exits[j].dir = d].to

exit_keys(room) ==
    IF room.exits = <<>> THEN <<>>
    ELSE [j \in 1..Len(room.exits) |-> room.exits[j].dir]

\* the text look builds for room number r
look_text(r, st) ==
    LET room == game_map.rooms[r]
        exits == join(SP, exit_keys(room))
    IN IF "items" \in room.keys /\ st.room_items[r] # <<>>
       THEN <<">", " ">> \o room.name \o NL \o NL \o room.desc \o NL \o NL
            \o <<"I", "t", "e", "m", "s", ":", " ">> \o join(SP, st.room_items[r]) \o NL \o NL
            \o <<"E", "x", "i", "t", "s", ":", " ">> \o exits \o NL
       ELSE <<">", " ">> \o room.name \o NL \o NL \o room.desc \o NL \o NL
            \o <<"E", "x", "i", "t", "s", ":", " ">> \o exits \o NL

\* look that empties the room's item list while it renders it
look_consuming(st) ==
    LET r == get_current_room(st) IN
    IF r = 0 THEN Raise(<<>>, st)
    ELSE Result(look_text(r, st), <<>>, [st EXCEPT !.room_items[r] = <<>>])

look(st) ==
    LET r == get_current_room(st) IN
    IF r = 0 THEN Raise(<<>>, st) ELSE Result(look_text(r, st), <<>>, st)

handle_look(st) == look(st)

\* what print(f"You go {direction}.\n") writes
you_go(d) == <<"Y", "o", "u", " ", "g", "o", " ">> \o d \o <<".">> \o NL \o NL

no_way(d) == <<"T", "h", "e", "r", "e", "'", "s", " ", "n", "o", " ", "w", "a", "y", " ", "t", "o", " ", "g", "o", " ">> \o d \o <<".">>

\* handle_go that builds a fresh game state when the player moves: the
\* inventory is emptied
handle_go_reset(direction, st) ==
    IF Len(direction) = 0
    THEN Result(<<"S", "o", "r", "r", "y", ",", " ", "y", "o", "u", " ", "n", "e", "e", "d", " ", "t", "o", " ", "'", "g", "o", "'", " ", "s", "o", "m", "e", "w", "h", "e", "r", "e", ".">>, <<>>, st)
    ELSE LET r == get_current_room(st) IN
         IF r = 0 THEN Raise(<<>>, st)
         ELSE LET room == game_map.rooms[r] IN
              IF has_exit(room, direction[1])
              THEN LET moved == [st EXCEPT !.current_room =
                                      exit_target(room, direction[1]),
                                      !.inventory = <<>>]
                       seen == look(moved)
                   IN IF seen.raised THEN Raise(you_go(direction[1]), moved)
                      ELSE Result(seen.output, you_go(direction[1]), moved)
              ELSE Result(no_way(direction[1]), <<>>, st)

\* direction is the list of the words after "go"
handle_go(direction, st) ==
    IF Len(direction) = 0
    THEN Result(<<"S", "o", "r", "r", "y", ",", " ", "y", "o", "u", " ", "n", "e", "e", "d", " ", "t", "o", " ", "'", "g", "o", "'", " ", "s", "o", "m", "e", "w", "h", "e", "r", "e", ".">>, <<>>, st)
    ELSE LET r == get_current_room(st) IN
         IF r = 0 THEN Raise(<<>>, st)
         ELSE LET room == game_map.rooms[r] IN
              IF has_exit(room, direction[1])
              THEN LET moved == [st EXCEPT !.current_room =
                                      exit_target(room, direction[1])]
                       seen == look(moved)
                   IN IF seen.raised THEN Raise(you_go(direction[1]), moved)
                      ELSE Result(seen.output, you_go(direction[1]), moved)
              ELSE Result(no_way(direction[1]), <<>>, st)

\* handle_direction that describes the next room without moving into it
handle_direction_stay(direction, st) ==
    LET r == get_current_room(st) IN
    IF r = 0 THEN Raise(<<>>, st)
    ELSE LET room == game_map.rooms[r] IN
         IF has_exit(room, direction)
         THEN LET moved == [st EXCEPT !.current_room =
                                 exit_target(room, direction)]
                  seen == look(moved)
              IN IF seen.raised THEN Raise(you_go(direction), moved)
                 ELSE Result(seen.output, you_go(direction), st)
         ELSE Result(no_way(direction), <<>>, st)

\* direction is one word
handle_direction(direction, st) ==
    LET r == get_current_room(st) IN
    IF r = 0 THEN Raise(<<>>, st)
    ELSE LET room == game_map.rooms[r] IN
         IF has_exit(room, direction)
         THEN LET moved == [st EXCEPT !.current_room =
                                 exit_target(room, direction)]
                  seen == look(moved)
              IN IF seen.raised THEN Raise(you_go(direction), moved)
                 ELSE Result(seen.output, you_go(direction), moved)
         ELSE Result(no_way(direction), <<>>, st)

\* handle_get without the membership test: list.remove raises ValueError
\* when the item is not in the room
handle_get_unchecked(items, st) ==
    IF items = <<>>
    THEN Result(<<"S", "o", "r", "r", "y", ",", " ", "y", "o", "u", " ", "n", "e", "e", "d", " ", "t", "o", " ", "'", "g", "e", "t", "'", " ", "s", "o", "m", "e", "t", "h", "i", "n", "g", ".">>, <<>>, st)
    ELSE LET r == get_current_room(st) IN
         IF r = 0 THEN Raise(<<>>, st)
         ELSE IF "items" \in game_map.rooms[r].keys
         THEN IF InList(items, st.room_items[r])
              THEN Result(<<"Y", "o", "u", " ", "p", "i", "c", "k", " ", "u", "p", " ", "t", "h", "e", " ">> \o items \o <<".">>, <<>>,
                          [st EXCEPT !.room_items[r] = ListRemove(@, items),
                                     !.inventory = Append(@, items)])
              ELSE Raise(<<>>, st)
         ELSE Result(<<"T", "h", "e", "r", "e", "'", "s", " ", "n", "o", " ">> \o items \o <<" ", "a", "n", "y", "w", "h", "e", "r", "e", ".">>, <<>>, st)

\* handle_get without room["items"].remove: the item stays in the room
handle_get_copy(items, st) ==
    IF items = <<>>
    THEN Result(<<"S", "o", "r", "r", "y", ",", " ", "y", "o", "u", " ", "n", "e", "e", "d", " ", "t", "o", " ", "'", "g", "e", "t", "'", " ", "s", "o", "m", "e", "t", "h", "i", "n", "g", ".">>, <<>>, st)
    ELSE LET r == get_current_room(st) IN
         IF r = 0 THEN Raise(<<>>, st)
         ELSE IF "items" \in game_map.rooms[r].keys
                 /\ InList(items, st.room_items[r])
         THEN Result(<<"Y", "o", "u", " ", "p", "i", "c", "k", " ", "u", "p", " ", "t", "h", "e", " ">> \o items \o <<".">>, <<>>,
                     [st EXCEPT !.inventory = Append(@, items)])
         ELSE Result(<<"T", "h", "e", "r", "e", "'", "s", " ", "n", "o", " ">> \o items \o <<" ", "a", "n", "y", "w", "h", "e", "r", "e", ".">>, <<>>, st)

\* items is the text after the verb
handle_get(items, st) ==
    IF items = <<>>
    THEN Result(<<"S", "o", "r", "r", "y", ",", " ", "y", "o", "u", " ", "n", "e", "e", "d", " ", "t", "o", " ", "'", "g", "e", "t", "'", " ", "s", "o", "m", "e", "t", "h", "i", "n", "g", ".">>, <<>>, st)
    ELSE LET r == get_current_room(st) IN
         IF r = 0 THEN Raise(<<>>, st)
         ELSE IF "items" \in game_map.rooms[r].keys
                 /\ InList(items, st.room_items[r])
         THEN Result(<<"Y", "o", "u", " ", "p", "i", "c", "k", " ", "u", "p", " ", "t", "h", "e", " ">> \o items \o <<".">>, <<>>,
                     [st EXCEPT !.room_items[r] = ListRemove(@, items),
                                !.inventory = Append(@, items)])
         ELSE Result(<<"T", "h", "e", "r", "e", "'", "s", " ", "n", "o", " ">> \o items \o <<" ", "a", "n", "y", "w", "h", "e", "r", "e", ".">>, <<>>, st)

\* handle_drop without room["items"].append: the dropped item is lost
handle_drop_lost(items, st) ==
    IF items = <<>>
    THEN Result(<<"S", "o", "r", "r", "y", ",", " ", "y", "o", "u", " ", "n", "e", "e", "d", " ", "t", "o", " ", "'", "d", "r", "o", "p", "'", " ", "s", "o", "m", "e", "t", "h", "i", "n", "g", ".">>, <<>>, st)
    ELSE LET r == get_current_room(st) IN
         IF r = 0 THEN Raise(<<>>, st)
         ELSE IF "items" \in game_map.rooms[r].keys
                 /\ InList(items, st.inventory)
         THEN Result(<<"Y", "o", "u", " ", "d", "r", "o", "p", " ", "t", "h", "e", " ">> \o items \o <<".">>, <<>>,
                     [st EXCEPT !.inventory = ListRemove(@, items)])
         ELSE Result(<<"Y", "o", "u", " ", "d", "o", "n", "'", "t", " ", "h", "a", "v", "e", " ">> \o items \o <<" ", "o", "r", " ", "y", "o", "u", " ", "c", "a", "n", "'", "t", " ", "d", "r", "o", "p", " ">>
                     \o items \o <<" ", "i", "n", " ", "t", "h", "i", "s", " ", "r", "o", "o", "m">>, <<>>, st)

handle_drop(items, st) ==
    IF items = <<>>
    THEN Result(<<"S", "o", "r", "r", "y", ",", " ", "y", "o", "u", " ", "n", "e", "e", "d", " ", "t", "o", " ", "'", "d", "r", "o", "p", "'", " ", "s", "o", "m", "e", "t", "h", "i", "n", "g", ".">>, <<>>, st)
    ELSE LET r == get_current_room(st) IN
         IF r = 0 THEN Raise(<<>>, st)
         ELSE IF "items" \in game_map.rooms[r].keys
                 /\ InList(items, st.inventory)
         THEN Result(<<"Y", "o", "u", " ", "d", "r", "o", "p", " ", "t", "h", "e", " ">> \o items \o <<".">>, <<>>,
                     [st EXCEPT !.inventory = ListRemove(@, items),
                                !.room_items[r] = Append(@, items)])
         ELSE Result(<<"Y", "o", "u", " ", "d", "o", "n", "'", "t", " ", "h", "a", "v", "e", " ">> \o items \o <<" ", "o", "r", " ", "y", "o", "u", " ", "c", "a", "n", "'", "t", " ", "d", "r", "o", "p", " ">>
                     \o items \o <<" ", "i", "n", " ", "t", "h", "i", "s", " ", "r", "o", "o", "m">>, <<>>, st)

handle_inventory(st) ==
    IF st.inventory # <<>>
    THEN Result(<<"I", "n", "v", "e", "n", "t", "o", "r", "y", ":", "\n", " ", " ">> \o join(<<"\n", " ", " ">>, st.inventory), <<>>, st)
    ELSE Result(<<"Y", "o", "u", "'", "r", "e", " ", "n", "o", "t", " ", "c", "a", "r", "r", "y", "i", "n", "g", " ", "a", "n", "y", "t", "h", "i", "n", "g", ".">>, <<>>, st)

\* every key of the dictionary, one per line
RECURSIVE help_lines(_)
help_lines(ks) ==
    IF ks = <<>> THEN <<>> ELSE Head(ks) \o NL \o help_lines(Tail(ks))

handle_help(dict, st) ==
    Result(strip(<<"Y", "o", "u", " ", "c", "a", "n", " ", "r", "u", "n", " ", "t", "h", "e", " ", "f", "o", "l", "l", "o", "w", "i", "n", "g", " ", "c", "o", "m", "m", "a", "n", "d", "s", ":">> \o NL
                 \o help_lines(dict)), <<>>, st)

\* the branch of process_command a command line takes
Branch(cmdline) ==
    LET words == split(lower(strip(cmdline))) IN
    IF words = <<>> THEN "empty"
    ELSE IF words[1] = s_quit THEN "quit"
    ELSE IF words[1] = s_go THEN "go"
    ELSE IF words[1] \in DirectionWords THEN "direction"
    ELSE IF words[1] = s_look THEN "look"
    ELSE IF words[1] = s_get THEN "get"
    ELSE IF words[1] = s_drop THEN "drop"
    ELSE IF words[1] = s_inventory THEN "inventory"
    ELSE IF words[1] = s_help THEN "help"
    ELSE "unknown"

\* process_command whose else branch returns "quit"
process_command_quit_else(cmdline, st) ==
    LET words == split(lower(strip(cmdline)))
        br == Branch(cmdline)
    IN CASE br = "empty" -> Result(<<"Y", "o", "u", " ", "n", "e", "e", "d", " ", "t", "o", " ", "e", "n", "t", "e", "r", " ", "a", " ", "c", "o", "m", "m", "a", "n", "d", ".">>, <<>>, st)
         [] br = "quit" -> Result(s_quit, <<"G", "o", "o", "d", "b", "y", "e", "!">> \o NL, st)
         [] br = "go" -> handle_go(Tail(words), st)
         [] br = "direction" -> handle_direction(words[1], st)
         [] br = "look" -> handle_look(st)
         [] br = "get" -> handle_get(strip(SliceFrom(cmdline, 3)), st)
         [] br = "drop" -> handle_drop(strip(SliceFrom(cmdline, 4)), st)
         [] br = "inventory" -> handle_inventory(st)
         [] br = "help" -> handle_help(function_dict, st)
         [] OTHER -> Result(s_quit, <<>>, st)

process_command(cmdline, st) ==
    LET words == split(lower(strip(cmdline)))
        br == Branch(cmdline)
    IN CASE br = "empty" -> Result(<<"Y", "o", "u", " ", "n", "e", "e", "d", " ", "t", "o", " ", "e", "n", "t", "e", "r", " ", "a", " ", "c", "o", "m", "m", "a", "n", "d", ".">>, <<>>, st)
         [] br = "quit" -> Result(s_quit, <<"G", "o", "o", "d", "b", "y", "e", "!">> \o NL, st)
         [] br = "go" -> handle_go(Tail(words), st)
         [] br = "direction" -> handle_direction(words[1], st)
         [] br = "look" -> handle_look(st)
         [] br = "get" -> handle_get(strip(SliceFrom(cmdline, 3)), st)
         [] br = "drop" -> handle_drop(strip(SliceFrom(cmdline, 4)), st)
         [] br = "inventory" -> handle_inventory(st)
         [] br = "help" -> handle_help(function_dict, st)
         [] OTHER -> Result(<<"U", "s", "e", " ", "'", "q", "u", "i", "t", "'", " ", "t", "o", " ", "e", "x", "i", "t", ".">>, <<>>, st)

----------------------------------------------------------------------------
(* The command lines a player types                                        *)

Line(verb, arg) == verb \o SP \o arg

Commands ==
    {<<>>, <<" ", " ">>,
     s_look, <<"L", "O", "O", "K">>, <<"l">>, s_inventory, <<"i", "n", "v">>, s_help, s_quit, <<"g">>,
     <<"d", "a", "n", "c", "e">>,
     s_east, s_west, s_south, s_north, s_southeast, s_southwest,
     s_northeast, s_northwest,
     s_go, <<"g", "o", " ", "N", "O", "R", "T", "H">>, <<"g", "o", " ", "N", "o", "r", "t", "h">>, <<"g", "o", " ", "s">>, <<"g", "o", " ", "n">>, <<"g", "o", " ", "u", "p">>}
    \cup {Line(s_go, d) : d \in DirectionWords}
    \cup {s_get, <<" ", " ", "g", "e", "t", " ", "k", "e", "y">>, <<"g", "e", "t", " ", "d", "e", "c", "k">>, <<"g", "e", "t", " ", "a">>}
    \cup {Line(s_get, i) : i \in {key, bandana, deck_of_cards}}
    \cup {s_drop, <<" ", "d", "r", "o", "p", " ", "k", "e", "y">>, <<"d", "r", "o", "p", " ", "d", "e", "c", "k">>}
    \cup {Line(s_drop, i) : i \in {key, bandana, deck_of_cards}}
    \cup {Line(s_go, s_quit), Line(s_get, s_quit), Line(s_drop, s_quit)}

\* the command lines by the branch of process_command they take
CommandsBy ==
    [b \in {"empty", "quit", "go", "direction", "look", "get", "drop",
            "inventory", "help", "unknown"} |->
        {c \in Commands : Branch(c) = b}]

CommandsOf(b) == CommandsBy[b]

----------------------------------------------------------------------------
(* main: load the map, create the game state, then one command per turn    *)

NoState == [current_room |-> <<>>, inventory |-> <<>>, room_items |-> <<>>]

InitWith(maps) ==
    /\ game_map \in maps
    /\ pc = "load"
    /\ current_room = <<>>
    /\ inventory = <<>>
    /\ room_items = <<>>
    /\ command = <<>>
    /\ output = <<>>
    /\ console = <<>>
    /\ prev = NoState

Init == InitWith(Maps)

InitGen == InitWith(GenMaps)

\* game_map = load_map(sys.argv[1])
LoadMap ==
    /\ pc = "load"
    /\ pc' = IF load_map(game_map) = "loaded" THEN "init" ELSE "exited"
    /\ UNCHANGED <<game_map, current_room, inventory, room_items, command,
                   output, console, prev>>

\* game_state = GameState(game_map); print(look(game_state))
StartGame ==
    /\ pc = "init"
    /\ LET st == GameState(game_map)
           seen == look(st)
       IN /\ current_room' = st.current_room
          /\ inventory' = st.inventory
          /\ room_items' = st.room_items
          /\ IF seen.raised
             THEN pc' = "crashed" /\ console' = <<>>
             ELSE pc' = "running" /\ console' = seen.output \o NL
    /\ UNCHANGED <<game_map, command, output, prev>>

\* one pass of the while loop on the line cmdline
Turn(cmdline) ==
    /\ pc = "running"
    /\ LET res == process_command(cmdline, State) IN
       /\ command' = cmdline
       /\ prev' = State
       /\ current_room' = res.state.current_room
       /\ inventory' = res.state.inventory
       /\ room_items' = res.state.room_items
       /\ IF res.raised
          THEN pc' = "crashed" /\ output' = <<>> /\ console' = res.printed
          ELSE /\ output' = res.output
               /\ IF res.output = s_quit
                  THEN pc' = "stopped" /\ console' = res.printed
                  ELSE pc' = "running"
                       /\ console' = res.printed \o res.output \o NL
    /\ UNCHANGED game_map

CmdEmpty == \E c \in CommandsOf("empty") : Turn(c)

CmdQuit == \E c \in CommandsOf("quit") : Turn(c)

CmdGo == \E c \in CommandsOf("go") : Turn(c)

CmdDirection == \E c \in CommandsOf("direction") : Turn(c)

CmdLook == \E c \in CommandsOf("look") : Turn(c)

CmdGet == \E c \in CommandsOf("get") : Turn(c)

CmdDrop == \E c \in CommandsOf("drop") : Turn(c)

CmdInventory == \E c \in CommandsOf("inventory") : Turn(c)

CmdHelp == \E c \in CommandsOf("help") : Turn(c)

CmdUnknown == \E c \in CommandsOf("unknown") : Turn(c)

Next ==
    \/ LoadMap
    \/ StartGame
    \/ CmdEmpty
    \/ CmdQuit
    \/ CmdGo
    \/ CmdDirection
    \/ CmdLook
    \/ CmdGet
    \/ CmdDrop
    \/ CmdInventory
    \/ CmdHelp
    \/ CmdUnknown

Spec == Init /\ [][Next]_vars

\* the same program started on the generated maps
SpecLoad == InitGen /\ [][Next]_vars

----------------------------------------------------------------------------
(* Vocabulary of the properties                                            *)

\* p is a prefix of s / sub occurs in s
StartsWith(s, p) == Len(p) <= Len(s) /\ SubSeq(s, 1, Len(p)) = p

Contains(s, sub) ==
    \E i \in 0..(Len(s) - Len(sub)) : SubSeq(s, i + 1, i + Len(sub)) = sub

\* the elements of a list as a bag
RECURSIVE BagOf(_)
BagOf(xs) ==
    IF xs = <<>> THEN EmptyBag ELSE SetToBag({Head(xs)}) (+) BagOf(Tail(xs))

\* the words of a command line as the player means them
Words(cmdline) == split(lower(strip(cmdline)))

\* the text a player typed after the verb, in the letter case typed
ArgText(cmdline) ==
    LET t == strip(cmdline) IN strip(SliceFrom(t, WordLen(t)))

RoomNames(m) == {m.rooms[i].name : i \in DOMAIN m.rooms}

ExitTargets(m) ==
    UNION {{m.rooms[i].exits[j].to : j \in DOMAIN m.rooms[i].exits} :
              i \in DOMAIN m.rooms}

\* the start room and every exit target name an existing room
ValidWorld(m) == m.start \in RoomNames(m) /\ ExitTargets(m) \subseteq RoomNames(m)

\* a game state exists
InGame == pc \in {"running", "stopped", "crashed"}

\* the last step was a turn of the loop on the line "command"
Turned == InGame /\ prev # NoState

\* the room the player was in before the last turn
PrevRoomNo == get_current_room(prev)

PrevRoom == game_map.rooms[PrevRoomNo]

PrevItems == prev.room_items[PrevRoomNo]

\* the room contents as bags, by room number
ItemBags(st) == [i \in DOMAIN st.room_items |-> BagOf(st.room_items[i])]

\* every element of cands occurs in s, one after the other
RECURSIVE ListsInOrder(_, _)
ListsInOrder(s, cands) ==
    IF cands = <<>> THEN TRUE
    ELSE \E i \in 0..(Len(s) - Len(Head(cands))) :
            /\ SubSeq(s, i + 1, i + Len(Head(cands))) = Head(cands)
            /\ ListsInOrder(SliceFrom(s, i + Len(Head(cands))), Tail(cands))

\* the elements of xs that start with token, in the order of xs
RECURSIVE PrefixMatches(_, _)
PrefixMatches(xs, token) ==
    IF xs = <<>> THEN <<>>
    ELSE (IF StartsWith(Head(xs), token) THEN <<Head(xs)>> ELSE <<>>)
         \o PrefixMatches(Tail(xs), token)

\* the elements of xs that contain token, in the order of xs
RECURSIVE SubstringMatches(_, _)
SubstringMatches(xs, token) ==
    IF xs = <<>> THEN <<>>
    ELSE (IF Contains(Head(xs), token) THEN <<Head(xs)>> ELSE <<>>)
         \o SubstringMatches(Tail(xs), token)

----------------------------------------------------------------------------
(* C1: in a world whose start room and exit targets all name rooms, after  *)
(* any sequence of commands current_room is the name of a room of the map  *)
(* (get_current_room does not return None).                                *)

C1_CurrentRoomExists ==
    (ValidWorld(game_map) /\ InGame) => get_current_room(State) # 0

\* the player has just walked through an exit into another room
C1_Witness ==
    /\ ValidWorld(game_map) /\ Turned /\ pc = "running"
    /\ Words(command) # <<>> /\ Words(command)[1] = s_go
    /\ current_room # prev.current_room
    /\ current_room \in RoomNames(game_map)

----------------------------------------------------------------------------
(* C2: in a valid world every rejected command (empty line, unknown verb,  *)
(* go with no argument or with a direction that is not an exit, get with   *)
(* no argument or an absent item, drop with no argument or an item not     *)
(* carried) returns a response string, raises nothing, and leaves          *)
(* current_room, inventory and every room's items as they were.            *)

Rejected(cmdline, st) ==
    LET words == Words(cmdline)
        r == get_current_room(st)
    IN \/ words = <<>>
       \/ words # <<>> /\ ~InList(words[1], function_dict)
       \/ /\ words # <<>> /\ words[1] = s_go
          /\ \/ Len(words) = 1
             \/ Len(words) > 1 /\ ~has_exit(game_map.rooms[r], words[2])
       \/ /\ words # <<>> /\ words[1] = s_get
          /\ \/ ArgText(cmdline) = <<>>
             \/ ~InList(ArgText(cmdline), st.room_items[r])
       \/ /\ words # <<>> /\ words[1] = s_drop
          /\ \/ ArgText(cmdline) = <<>>
             \/ ~InList(ArgText(cmdline), st.inventory)

\* C2: a rejected command is answered with a string, raises nothing and
\* leaves the game state as it was
C2_RejectedLeavesState ==
    (ValidWorld(game_map) /\ Turned /\ Rejected(command, prev)) =>
        /\ pc = "running"
        /\ output # <<>>
        /\ State = prev

\* a get of an item that is not in the room has just been answered
C2_Witness ==
    /\ ValidWorld(game_map) /\ Turned
    /\ command = Line(s_get, bandana)
    /\ ~InList(bandana, PrevItems)
    /\ output = <<"T", "h", "e", "r", "e", "'", "s", " ", "n", "o", " ", "b", "a", "n", "d", "a", "n", "a", " ", "a", "n", "y", "w", "h", "e", "r", "e", ".">>
    /\ inventory # <<>>

----------------------------------------------------------------------------
(* C3: when the first word is go and the second word, in any letter case,  *)
(* is the full name of an exit of the current room, current_room becomes   *)
(* that exit's target and the returned text is the text look returns for   *)
(* the destination room.                                                   *)

\* the exits of room whose name is word up to letter case
NamedExits(room, word) ==
    {j \in DOMAIN room.exits : lower(room.exits[j].dir) = lower(word)}

\* C3: go with the full name of an exit, in any letter case, moves the player
\* to the exit's target and returns the look text of that room
C3_GoFullNameMoves ==
    (/\ ValidWorld(game_map) /\ Turned
     /\ Len(Words(command)) > 1 /\ Words(command)[1] = s_go
     /\ NamedExits(PrevRoom, Words(command)[2]) # {})
    => /\ pc = "running"
       /\ \E j \in NamedExits(PrevRoom, Words(command)[2]) :
              current_room = PrevRoom.exits[j].to
       /\ output = look(State).output

----------------------------------------------------------------------------
(* C4: for an item X of the current room, get X immediately followed by    *)
(* drop X leaves the room's items and the inventory with the same          *)
(* membership as bags, and leaves current_room and every other room's      *)
(* items unchanged.                                                        *)

\* the last turn was a get of an item that was in the room
JustGot(x) == Turned /\ command = Line(s_get, x) /\ InList(x, PrevItems)

\* C4: a successful get x followed at once by drop x restores the state of
\* before the get, up to the order of the lists
C4_GetDropRoundTrip ==
    [][\A x \in {key, bandana, deck_of_cards} :
         (JustGot(x) /\ command' = Line(s_drop, x)) =>
            /\ pc' = "running"
            /\ current_room' = prev.current_room
            /\ BagOf(inventory') = BagOf(prev.inventory)
            /\ [i \in DOMAIN room_items' |-> BagOf(room_items'[i])]
                   = ItemBags(prev)]_vars

\* the deck was taken from the head of the room's list and dropped back at
\* its end
C4_Witness ==
    /\ game_map = MapHouse /\ Turned
    /\ command = Line(s_drop, deck_of_cards)
    /\ output = <<"Y", "o", "u", " ", "d", "r", "o", "p", " ", "t", "h", "e", " ", "d", "e", "c", "k", " ", "o", "f", " ", "c", "a", "r", "d", "s", ".">>
    /\ prev.inventory = <<deck_of_cards>>
    /\ prev.room_items[3] = <<bandana, key>>
    /\ room_items[3] = <<bandana, key, deck_of_cards>>
    /\ inventory = <<>>

----------------------------------------------------------------------------
(* C5: whenever the name given to drop is exactly the name of an item in   *)
(* the inventory, the drop succeeds in whatever room the player is in,     *)
(* also a room defined without an item list: the item leaves the           *)
(* inventory, becomes an item of the current room, and the response is     *)
(* "You drop the <item>."                                                  *)

C5_DropCarriedSucceeds ==
    \A x \in {key, bandana, deck_of_cards} :
        (/\ ValidWorld(game_map) /\ Turned
         /\ command = Line(s_drop, x) /\ InList(x, prev.inventory))
        => /\ output = <<"Y", "o", "u", " ", "d", "r", "o", "p", " ", "t", "h", "e", " ">> \o x \o <<".">>
           /\ BagOf(inventory) (+) SetToBag({x}) = BagOf(prev.inventory)
           /\ InList(x, room_items[PrevRoomNo])
           /\ current_room = prev.current_room

----------------------------------------------------------------------------
(* C6: a go command whose direction token is a proper prefix of exactly    *)
(* one exit name of the current room moves the player to that exit's       *)
(* target room.                                                            *)

ProperPrefix(p, s) == StartsWith(s, p) /\ p # s /\ p # <<>>

PrefixedExits(room, token) ==
    {j \in DOMAIN room.exits : ProperPrefix(token, room.exits[j].dir)}

\* C6: go with a proper prefix of exactly one exit name moves the player to
\* that exit's target
C6_GoUniquePrefixMoves ==
    (/\ ValidWorld(game_map) /\ Turned
     /\ Len(Words(command)) > 1 /\ Words(command)[1] = s_go
     /\ Cardinality(PrefixedExits(PrevRoom, Words(command)[2])) = 1
     /\ ~has_exit(PrevRoom, Words(command)[2]))
    => \E j \in PrefixedExits(PrevRoom, Words(command)[2]) :
           current_room = PrevRoom.exits[j].to

----------------------------------------------------------------------------
(* C7: when the token matches two or more candidates (go with a prefix of  *)
(* at least two exit names, get with a substring of at least two items of  *)
(* the room), the response lists every matching candidate in candidate     *)
(* order and no part of the game state changes.                            *)

GoCandidates(room, token) == PrefixMatches(exit_keys(room), token)

GetCandidates(its, token) == SubstringMatches(its, token)

\* the candidates of the last command when it is ambiguous, else <<>>
AmbiguousCandidates ==
    LET words == Words(command) IN
    IF command # strip(command) THEN <<>>
    ELSE IF Len(words) > 1 /\ words[1] = s_go
       /\ Len(GoCandidates(PrevRoom, words[2])) >= 2
       /\ ~has_exit(PrevRoom, words[2])
    THEN GoCandidates(PrevRoom, words[2])
    ELSE IF Len(words) > 1 /\ words[1] = s_get
            /\ Len(GetCandidates(PrevItems, ArgText(command))) >= 2
            /\ ~InList(ArgText(command), PrevItems)
    THEN GetCandidates(PrevItems, ArgText(command))
    ELSE <<>>

\* C7: an ambiguous token changes no state and is answered with the list of
\* its candidates in candidate order
C7_AmbiguousListsCandidates ==
    (ValidWorld(game_map) /\ Turned /\ AmbiguousCandidates # <<>>)
    => /\ State = prev
       /\ ListsInOrder(output, AmbiguousCandidates)

----------------------------------------------------------------------------
(* C8: a get command whose token is a substring of exactly one item of     *)
(* the current room removes that item from the room, appends its full      *)
(* name to the inventory and responds "You pick up the <item>." with the   *)
(* full item name.                                                         *)

C8_GetUniqueSubstring ==
    (/\ ValidWorld(game_map) /\ Turned /\ command = strip(command)
     /\ Len(Words(command)) > 1 /\ Words(command)[1] = s_get
     /\ Len(GetCandidates(PrevItems, ArgText(command))) = 1)
    => LET item == GetCandidates(PrevItems, ArgText(command))[1] IN
       /\ output = <<"Y", "o", "u", " ", "p", "i", "c", "k", " ", "u", "p", " ", "t", "h", "e", " ">> \o item \o <<".">>
       /\ inventory = Append(prev.inventory, item)
       /\ room_items[PrevRoomNo] = ListRemove(PrevItems, item)

----------------------------------------------------------------------------
(* C9: a first token that is a prefix of exactly one verb of the           *)
(* vocabulary (go, look, get, drop, inventory, help, quit) is executed as  *)
(* that verb; a first token that is a prefix of two or more verbs yields   *)
(* a response listing those verbs and changes no state.                    *)

Vocabulary == <<s_go, s_look, s_get, s_drop, s_inventory, s_help, s_quit>>

VerbCandidates(token) == PrefixMatches(Vocabulary, token)

\* the command line with its first word replaced by verb
WithVerb(cmdline, verb) ==
    LET t == strip(cmdline) IN verb \o SliceFrom(t, WordLen(t))

\* C9: a unique verb prefix acts as the verb; an ambiguous one lists the
\* verbs it matches and changes no state
C9_VerbPrefix ==
    (/\ ValidWorld(game_map) /\ Turned
     /\ Words(command) # <<>> /\ command = strip(command))
    => LET cands == VerbCandidates(Words(command)[1]) IN
       /\ Len(cands) = 1 =>
            LET full == process_command(WithVerb(command, cands[1]), prev) IN
            /\ output = full.output
            /\ State = full.state
       /\ Len(cands) >= 2 =>
            /\ State = prev
            /\ ListsInOrder(output, cands)

----------------------------------------------------------------------------
(* C10: validate_map accepts a map whose exits name rooms defined later in *)
(* the rooms list and rejects every map in which some exit target is not   *)
(* the name of a room of the complete list; when validation fails the      *)
(* process ends with no game state created and no command processed.       *)

\* nothing but the exit targets can make the map invalid
WellFormed(m) ==
    /\ {"start", "rooms"} \subseteq m.keys
    /\ \A i \in DOMAIN m.rooms :
          /\ {"name", "desc", "exits"} \subseteq m.rooms[i].keys
          /\ m.rooms[i].typed
          /\ \A k \in DOMAIN m.rooms : m.rooms[k].name = m.rooms[i].name => k = i

\* some exit names a room that is defined later in the list
HasForwardReference(m) ==
    \E i \in DOMAIN m.rooms : \E j \in DOMAIN m.rooms[i].exits :
        \E k \in DOMAIN m.rooms : k > i /\ m.rooms[k].name = m.rooms[i].exits[j].to

NothingPlayed ==
    /\ State = NoState
    /\ command = <<>> /\ output = <<>> /\ console = <<>> /\ prev = NoState

\* C10: a well-formed map is accepted when all its exit targets are rooms of
\* the complete list, a map with a dangling exit is rejected, and after a
\* rejection nothing is played
C10_ValidateExits ==
    /\ (pc # "load" /\ WellFormed(game_map)
        /\ ExitTargets(game_map) \subseteq RoomNames(game_map))
       => pc # "exited"
    /\ (pc # "load" /\ ~(ExitTargets(game_map) \subseteq RoomNames(game_map)))
       => pc = "exited"
    /\ pc \in {"load", "exited"} => NothingPlayed

\* a map with a forward reference was accepted and the player has walked
\* through the forward exit
C10_Witness ==
    /\ HasForwardReference(game_map)
    /\ pc = "running" /\ Turned
    /\ prev.current_room = game_map.rooms[1].name
    /\ Len(game_map.rooms) > 1
    /\ current_room = game_map.rooms[2].name
    /\ current_room # prev.current_room

----------------------------------------------------------------------------
(* C11: a map whose start field names no room of the rooms list fails      *)
(* validation, so play never begins with current_room set to a room that   *)
(* does not exist.                                                         *)

\* C11: once load_map has run on a map whose start names no room, the
\* process has exited and no game state holds a dangling current_room
C11_BadStartRejected ==
    (/\ pc # "load"
     /\ "start" \in game_map.keys
     /\ game_map.start \notin RoomNames(game_map))
    => /\ pc = "exited"
       /\ NothingPlayed

----------------------------------------------------------------------------
(* C12: the session loop ends after a command if and only if the command's *)
(* first token is quit, whatever the rooms, items and directions are       *)
(* named, and once the loop has stopped no further command is processed.   *)

FirstTokenIsQuit(cmdline) ==
    Words(cmdline) # <<>> /\ Words(cmdline)[1] = s_quit

\* C12: a turn leaves the loop exactly when its first token is quit, and
\* nothing changes once the loop has stopped
C12_OnlyQuitStops ==
    [][/\ pc = "running" =>
            /\ pc' \in {"running", "stopped"}
            /\ pc' = "stopped" <=> FirstTokenIsQuit(command')
       /\ pc = "stopped" => UNCHANGED vars]_vars

\* the player took the item named quit, went through the exit named quit
\* into the room named quit, and only then typed quit
C12_Witness ==
    /\ game_map = MapQuit
    /\ pc = "stopped"
    /\ command = s_quit
    /\ inventory = <<s_quit>>
    /\ current_room = s_quit

----------------------------------------------------------------------------
(* C13: the look command changes no part of the game state, and any number *)
(* of consecutive look commands with no intervening successful go, get or  *)
(* drop all return the same text.                                          *)

\* C13: a look turn leaves the game state as it is and returns the text of
\* the room as it stands; a look that follows a look returns the same text
C13_LookIdempotent ==
    [][(pc = "running" /\ Branch(command') = "look") =>
          /\ pc' = "running"
          /\ current_room' = current_room
          /\ inventory' = inventory
          /\ room_items' = room_items
          /\ output' = look_text(get_current_room(State), State)
          /\ (Turned /\ Branch(command) = "look") => output' = output]_vars

\* a look, typed in capitals, in a room that holds items while the player
\* carries something
C13_Witness ==
    /\ Turned /\ pc = "running"
    /\ command = <<"L", "O", "O", "K">>
    /\ State = prev
    /\ room_items[get_current_room(State)] # <<>>
    /\ inventory # <<>>
    /\ output = look_text(get_current_room(State), State)

----------------------------------------------------------------------------
(* C14: the set of command words listed by help is exactly the set of      *)
(* first tokens that process_command accepts as a command: every listed    *)
(* word is dispatched to a handler and every accepted first token is       *)
(* listed.                                                                 *)

\* the lines of a text
RECURSIVE Lines(_)
Lines(s) ==
    IF \E i \in DOMAIN s : s[i] = "\n"
    THEN LET k == CHOOSE i \in DOMAIN s :
                     s[i] = "\n" /\ \A j \in 1..(i - 1) : s[j] # "\n"
         IN <<SubSeq(s, 1, k - 1)>> \o Lines(SliceFrom(s, k))
    ELSE <<s>>

\* the words help lists: the lines of its response after the heading
HelpWords(text) == {Lines(text)[i] : i \in 2..Len(Lines(text))}

\* the first tokens a player types, and every word help could list
FirstTokens ==
    {Words(c)[1] : c \in {l \in Commands : Words(l) # <<>>}}
    \cup {function_dict[i] : i \in DOMAIN function_dict}

\* the first tokens that are not answered with the unknown-command response
AcceptedTokens == {w \in FirstTokens : Branch(w) # "unknown"}

\* C14: the words in the response of help are the accepted first tokens
C14_HelpListsAccepted ==
    (Turned /\ Branch(command) = "help") =>
        /\ pc = "running"
        /\ Lines(output)[1] = <<"Y", "o", "u", " ", "c", "a", "n", " ", "r", "u", "n", " ", "t", "h", "e", " ", "f", "o", "l", "l", "o", "w", "i", "n", "g", " ", "c", "o", "m", "m", "a", "n", "d", "s", ":">>
        /\ HelpWords(output) = AcceptedTokens

\* help was typed while the player carried an item
C14_Witness ==
    /\ Turned /\ command = s_help
    /\ Len(Lines(output)) > 1
    /\ s_drop \in HelpWords(output)
    /\ <<"i", "n", "v">> \in FirstTokens \ AcceptedTokens
    /\ inventory # <<>>

----------------------------------------------------------------------------
(* C15: the response string returned for a successful go consists of       *)
(* "You go <direction>." followed by the destination room's description,   *)
(* and handlers produce no output other than their returned response       *)
(* string: process_command and the handlers write nothing to the console.  *)

EndsWith(s, e) ==
    Len(e) <= Len(s) /\ SubSeq(s, Len(s) - Len(e) + 1, Len(s)) = e

\* the last turn was a go through an exit of the room
WentThroughExit ==
    /\ Turned
    /\ Len(Words(command)) > 1 /\ Words(command)[1] = s_go
    /\ has_exit(PrevRoom, Words(command)[2])

\* what the console received during the last turn beyond the print of the
\* returned string by the loop
WrittenByHandlers == process_command(command, prev).printed

\* C15: the string returned by a successful go starts with "You go d." and
\* ends with the look text of the destination, and the turn writes nothing
\* to the console but that string
C15_ResponseIsOnlyOutput ==
    (ValidWorld(game_map) /\ WentThroughExit) =>
        /\ pc = "running"
        /\ WrittenByHandlers = <<>>
        /\ console = output \o NL
        /\ StartsWith(output, <<"Y", "o", "u", " ", "g", "o", " ">> \o Words(command)[2] \o <<".">>)
        /\ EndsWith(output, look(State).output)

----------------------------------------------------------------------------
(* C16: no sequence of commands changes the set of rooms, a room's name,   *)
(* description or exits, or the start field; movement commands change only *)
(* current_room; get and drop change only the inventory and the items of   *)
(* the current room.                                                       *)

\* C16: every step leaves the map as loaded; a go or compass turn leaves the
\* inventory and all room items alone; a get or drop turn leaves
\* current_room and the items of every other room alone
C16_Frame ==
    [][/\ game_map' = game_map
       /\ (pc = "running" /\ Branch(command') \in {"go", "direction"}) =>
             /\ inventory' = inventory
             /\ room_items' = room_items
       /\ (pc = "running" /\ Branch(command') \in {"get", "drop"}) =>
             /\ current_room' = current_room
             /\ \A i \in DOMAIN room_items :
                   game_map.rooms[i].name # current_room =>
                       room_items'[i] = room_items[i]]_vars

\* the player, carrying an item, has dropped another one in a room of a map
\* with other rooms that hold items
C16_Witness ==
    /\ game_map = MapHouse /\ Turned
    /\ command = Line(s_drop, bandana)
    /\ current_room = A
    /\ room_items[1] = <<bandana>>
    /\ room_items[3] # <<>>
    /\ inventory # <<>>

----------------------------------------------------------------------------
(* C17: items are conserved: after any sequence of commands the bag union  *)
(* of the inventory and the item lists of all rooms equals the bag union   *)
(* of the item lists of all rooms in the initial map; each successful get  *)
(* or drop moves exactly one occurrence of one item name between the       *)
(* current room and the inventory.                                         *)

RECURSIVE BagOfLists(_)
BagOfLists(lists) ==
    IF lists = <<>> THEN EmptyBag ELSE BagOf(Head(lists)) (+) BagOfLists(Tail(lists))

\* everything the player carries and every room holds
AllItems(st) == BagOf(st.inventory) (+) BagOfLists(st.room_items)

\* the item lists of the map as loaded
MapItems(m) ==
    BagOfLists([i \in DOMAIN m.rooms |->
                 IF "items" \in m.rooms[i].keys THEN m.rooms[i].items ELSE <<>>])

One(x) == SetToBag({x})

\* the last turn moved one x from the room to the inventory, or back
MovedOne(x) ==
    \/ /\ BagOf(inventory) = BagOf(prev.inventory) (+) One(x)
       /\ BagOf(room_items[PrevRoomNo]) (+) One(x) = BagOf(PrevItems)
    \/ /\ BagOf(inventory) (+) One(x) = BagOf(prev.inventory)
       /\ BagOf(room_items[PrevRoomNo]) = BagOf(PrevItems) (+) One(x)

\* C17: the items of the game are those of the map, and a get or drop that
\* changed the state moved one occurrence of one item
C17_ItemsConserved ==
    InGame =>
        /\ AllItems(State) = MapItems(game_map)
        /\ (Turned /\ Branch(command) \in {"get", "drop"} /\ State # prev) =>
              \E x \in {prev.inventory[i] : i \in DOMAIN prev.inventory}
                       \cup {PrevItems[i] : i \in DOMAIN PrevItems} :
                  MovedOne(x)

\* one of two keys of a room has been picked up
C17_Witness ==
    /\ game_map = MapCaps /\ Turned
    /\ command = Line(s_get, key)
    /\ inventory = <<key>>
    /\ room_items[1] = <<key>>
    /\ MovedOne(key)

----------------------------------------------------------------------------
(* C18: leading whitespace on the input line does not change the outcome   *)
(* of a command: process_command applied to a line with spaces prepended   *)
(* returns the same response and leaves the same state as applied to the   *)
(* line itself, in particular for get <item> and drop <item>.              *)

\* C18: the last turn answered and left the state as the same line without
\* its leading blanks would have
C18_LeadingBlanksIgnored ==
    (ValidWorld(game_map) /\ Turned) =>
        LET bare == process_command(lstrip(command), prev) IN
        /\ output = bare.output
        /\ State = bare.state

----------------------------------------------------------------------------
(* C19: for each of the eight compass words d and every reachable state,   *)
(* the command d typed alone has the same response and the same resulting  *)
(* state as the command go d.                                              *)

\* what the last turn returned, wrote and left
LastTurn ==
    [output |-> output, state |-> State,
     console |-> console, running |-> pc = "running"]

\* what the line cmdline would have returned, written and left in its place
Instead(cmdline) ==
    LET res == process_command(cmdline, prev) IN
    [output |-> res.output, state |-> res.state,
     console |-> IF res.raised THEN res.printed
                 ELSE res.printed \o res.output \o NL,
     running |-> ~res.raised /\ res.output # s_quit]

\* C19: a compass word typed alone and go with that word are answered alike
\* and leave the same state
C19_CompassIsGo ==
    \A d \in DirectionWords :
        /\ (Turned /\ command = d) => LastTurn = Instead(Line(s_go, d))
        /\ (Turned /\ command = Line(s_go, d)) => LastTurn = Instead(d)

\* the player has walked north by typing the compass word alone
C19_Witness ==
    /\ Turned /\ command = s_north
    /\ current_room # prev.current_room
    /\ LastTurn = Instead(Line(s_go, s_north))
    /\ inventory # <<>>

====
